---------------------------- MODULE Spec2Model ----------------------------
(***************************************************************************)
(* Value objects of package-CRUD: CPF, Email and FullName                  *)
(* (src/src/factories/*.ts).                                               *)
(*                                                                         *)
(* A JavaScript string is modelled as a sequence of characters; a          *)
(* character is a one-element token written as a TLA+ string.  Characters  *)
(* outside ASCII carry an ASCII token name ("e_acute" for U+00E9), and the *)
(* Portuguese messages are written without their diacritics.               *)
(*                                                                         *)
(* The schemas are zod (v3) schemas.  What the model takes from zod:       *)
(*   - the checks of a z.string() all run, in the order written, and each  *)
(*     failing one appends an issue carrying its message;                  *)
(*   - .refine() runs its predicate also when an earlier string check has  *)
(*     failed (the value is "dirty", not "aborted") and appends its issue  *)
(*     after the string checks' issues;                                    *)
(*   - safeParse(...).success is "no issue"; error.errors is the list of   *)
(*     issues.                                                             *)
(***************************************************************************)
EXTENDS Integers, Sequences, FiniteSets, TLC

VARIABLES
    cls,          \* the class the calls are made on: "CPF", "Email", "FullName"
    input,        \* the string handed to the constructor and to isValid
    origin,       \* how the caller obtained input: [how |-> ..., from |-> ...]
    value,        \* Some(this.value) of the constructed object, or None
    thrown,       \* message of the Error the constructor threw, or NoError
    isValidRet,   \* Some(what the static isValid(input) returned), or None
    formatted,    \* Some(what the getter formatted returned), or None
    domain,       \* Some(what Email.getDomain() returned), or None
    username,     \* Some(what Email.getUsername() returned), or None
    hasDomainArg, \* Some(the argument of the Email.hasDomain call), or None
    hasDomainRet, \* Some(what that call returned), or None
    firstName,    \* Some(what FullName.getFirstName() returned), or None
    lastName,     \* Some(what FullName.getLastName() returned), or None
    objects,      \* every object constructed so far, in order of construction
    lastIndex,    \* lastIndex of the RegExp object of each static schema
    lastCall      \* Some(the latest call made among many objects), or None

\* What outlives a single call: the objects and the static schema.
shared == <<objects, lastIndex, lastCall>>

vars == <<cls, input, origin, value, thrown, isValidRet, formatted,
          domain, username, hasDomainArg, hasDomainRet, firstName, lastName,
          objects, lastIndex, lastCall>>

\* An optional result: None before the call (or when the call gave nothing),
\* Some(x) once it returned x.
None    == <<>>
Some(x) == <<x>>
Get(o)  == o[1]

\* The constructor has not thrown.
NoError == "NoError"

\* JavaScript's NaN and undefined where the code computes with numbers; both
\* lie outside the digits' values.
NaN       == 0 - 1
Undefined == 0 - 2

(***************************************************************************)
(* Bounds of the model.                                                    *)
(***************************************************************************)
\* Longest digit subsequence of a CPF input (11 is the valid length).
MaxDigits == 12

(***************************************************************************)
(* Strings.                                                                *)
(***************************************************************************)
Digits == {"0", "1", "2", "3", "4", "5", "6", "7", "8", "9"}

\* \d of a JavaScript regular expression (no u flag): the ASCII digits only.
IsDigit(c) == c \in Digits

\* parseInt(c, 10) of a single ASCII digit.
ParseInt(c) ==
    CASE c = "0" -> 0 [] c = "1" -> 1 [] c = "2" -> 2 [] c = "3" -> 3
      [] c = "4" -> 4 [] c = "5" -> 5 [] c = "6" -> 6 [] c = "7" -> 7
      [] c = "8" -> 8 [] c = "9" -> 9 [] OTHER -> NaN

\* n copies of the character c.
Repeat(c, n) == [i \in 1..n |-> c]

(***************************************************************************)
(* CPF  (src/src/factories/cpf.ts)                                         *)
(***************************************************************************)
MsgCpfDigits  == "CPF deve conter exatamente 11 digitos numericos"
MsgCpfInvalid == "CPF invalido"

\* cpf.replace(/\D/g, '')
StripNonDigits(s) == SelectSeq(s, IsDigit)

\* validate without its first test.
AllSameDigitsNever(s) == FALSE

\* /^(\d)\1{10}$/.test(cpf)
AllSameDigits(s) ==
    /\ Len(s) = 11
    /\ IsDigit(s[1])
    /\ \A i \in 2..11 : s[i] = s[1]

\* digits[i] of cpf.split('').map(parseInt), i counted from 0 as in the code.
DigitAt(s, i) == IF i + 1 <= Len(s) THEN ParseInt(s[i + 1]) ELSE Undefined

\* The loop "for (i = 0; i < n; i++) soma += digits[i] * (w - i)"; a digit that
\* is undefined or NaN makes the sum NaN.
RECURSIVE Soma(_, _, _)
Soma(s, n, w) ==
    IF n = 0 THEN 0
    ELSE LET rest == Soma(s, n - 1, w)
             d    == DigitAt(s, n - 1)
         IN  IF rest = NaN \/ d \in {NaN, Undefined} THEN NaN
             ELSE rest + d * (w - (n - 1))

\* The remainder without "if (resto === 10) resto = 0".
RestoNoWrap(soma) == IF soma = NaN THEN NaN ELSE (soma * 10) % 11

\* "let resto = (soma * 10) % 11; if (resto === 10) resto = 0"
Resto(soma) ==
    IF soma = NaN THEN NaN
    ELSE LET r == (soma * 10) % 11 IN IF r = 10 THEN 0 ELSE r

\* validate returning after the first check digit.
ValidateFirstDigitOnly(s) ==
    /\ ~AllSameDigits(s)
    /\ Resto(Soma(s, 9, 10)) # NaN
    /\ Resto(Soma(s, 9, 10)) = DigitAt(s, 9)

\* CPF.validate
Validate(s) ==
    IF AllSameDigits(s) THEN FALSE
    ELSE LET resto1 == Resto(Soma(s, 9, 10))
         IN  \* NaN !== x is true for every x
             IF resto1 = NaN \/ resto1 # DigitAt(s, 9) THEN FALSE
             ELSE LET resto2 == Resto(Soma(s, 10, 11))
                  IN  resto2 # NaN /\ resto2 = DigitAt(s, 10)

\* /^\d{11}$/.test(s)
ElevenDigits(s) == Len(s) = 11 /\ \A i \in 1..11 : IsDigit(s[i])

\* The schema with the refinement's issue reported before the pattern's.
CpfSchemaRefineFirst(s) ==
    LET issues == (IF Validate(s) THEN <<>> ELSE <<MsgCpfInvalid>>)
                  \o (IF ElevenDigits(s) THEN <<>> ELSE <<MsgCpfDigits>>)
    IN  [success |-> issues = <<>>, errors |-> issues]

\* CPF.schema.safeParse(s): [success, errors]
CpfSchema(s) ==
    LET issues == (IF ElevenDigits(s) THEN <<>> ELSE <<MsgCpfDigits>>)
                  \o (IF Validate(s) THEN <<>> ELSE <<MsgCpfInvalid>>)
    IN  [success |-> issues = <<>>, errors |-> issues]

\* "result.error.errors[0]?.message || fallback"
FirstMessage(result, fallback) ==
    IF Len(result.errors) > 0 THEN result.errors[1] ELSE fallback

\* The replacement '$1.$2.$3$4', without the dash.
CpfFormattedNoDash(v) ==
    SubSeq(v, 1, 3) \o <<".">> \o SubSeq(v, 4, 6) \o <<".">>
        \o SubSeq(v, 7, 9) \o SubSeq(v, 10, Len(v))

\* The getter formatted:
\* value.replace(/(\d{3})(\d{3})(\d{3})(\d{2})/, '$1.$2.$3-$4'), on a value of
\* (at least) 11 digits; the first match starts at the first character.
CpfFormatted(v) ==
    SubSeq(v, 1, 3) \o <<".">> \o SubSeq(v, 4, 6) \o <<".">>
        \o SubSeq(v, 7, 9) \o <<"-">> \o SubSeq(v, 10, 11)
        \o SubSeq(v, 12, Len(v))

\* isValid without the strip of the non-digits.
\* get raw(): this.value
CpfRaw(v) == v

CpfIsValidNoStrip(s) == CpfSchema(s).success

\* CPF.isValid(cpf); safeParse does not throw, so the catch is never taken.
CpfIsValid(s) == CpfSchema(StripNonDigits(s)).success


\* new CPF(cpf): [value, thrown]
CpfNew(s) ==
    LET cleanCpf == StripNonDigits(s)
        result   == CpfSchema(cleanCpf)
    IN  IF ~result.success
        THEN [value |-> None, thrown |-> FirstMessage(result, MsgCpfInvalid)]
        ELSE [value |-> Some(cleanCpf), thrown |-> NoError]

(***************************************************************************)
(* JavaScript string operations.                                           *)
(***************************************************************************)
LowerAZ == <<"a", "b", "c", "d", "e", "f", "g", "h", "i", "j", "k", "l", "m",
             "n", "o", "p", "q", "r", "s", "t", "u", "v", "w", "x", "y", "z">>
UpperAZ == <<"A", "B", "C", "D", "E", "F", "G", "H", "I", "J", "K", "L", "M",
             "N", "O", "P", "Q", "R", "S", "T", "U", "V", "W", "X", "Y", "Z">>

Range(f) == { f[i] : i \in DOMAIN f }
IndexOf(f, c) == CHOOSE i \in DOMAIN f : f[i] = c

IsAsciiLower(c) == c \in Range(LowerAZ)
IsAsciiUpper(c) == c \in Range(UpperAZ)
IsAsciiLetter(c) == IsAsciiLower(c) \/ IsAsciiUpper(c)

\* Letters of Latin-1 (U+00C0..U+00FF without U+00D7 and U+00F7) the model
\* names, as <<lower, upper>> pairs that toLowerCase/toUpperCase exchange.
Latin1Pairs ==
    { <<"a_grave", "A_grave">>, <<"a_tilde", "A_tilde">>,
      <<"e_acute", "E_acute">>, <<"c_cedilla", "C_cedilla">> }

Latin1Lower == { p[1] : p \in Latin1Pairs }
Latin1Upper == { p[2] : p \in Latin1Pairs }

\* Characters whose case mapping is not one Latin-1 letter for another:
\*   "sharp_s"      U+00DF, lower case; its upper case is the two letters SS
\*   "y_diaeresis"  U+00FF, lower case; its upper case is U+0178
\*   "Y_diaeresis"  U+0178, outside Latin-1
\*   "kelvin"       U+212A, upper case; its lower case is the ASCII k
\* c.toLowerCase(), as a string
LowerChar(c) ==
    CASE IsAsciiUpper(c)   -> <<LowerAZ[IndexOf(UpperAZ, c)]>>
      [] c \in Latin1Upper -> <<(CHOOSE p \in Latin1Pairs : p[2] = c)[1]>>
      [] c = "Y_diaeresis" -> <<"y_diaeresis">>
      [] c = "kelvin"      -> <<"k">>
      [] OTHER             -> <<c>>

\* c.toUpperCase(), as a string
UpperChar(c) ==
    CASE IsAsciiLower(c)   -> <<UpperAZ[IndexOf(LowerAZ, c)]>>
      [] c \in Latin1Lower -> <<(CHOOSE p \in Latin1Pairs : p[1] = c)[2]>>
      [] c = "sharp_s"     -> <<"S", "S">>
      [] c = "y_diaeresis" -> <<"Y_diaeresis">>
      [] OTHER             -> <<c>>

\* The k-th smallest element of a finite set of integers.
KthSmallest(S, k) == CHOOSE i \in S : Cardinality({ j \in S : j < i }) = k - 1

\* The concatenation of a sequence of strings.
RECURSIVE Flatten(_)
Flatten(ss) == IF ss = <<>> THEN <<>> ELSE Head(ss) \o Flatten(Tail(ss))

\* s.toLowerCase(): no character of the model has a longer lower case.
ToLowerCase(s) == [i \in 1..Len(s) |-> LowerChar(s[i])[1]]

\* s.toUpperCase()
ToUpperCase(s) == Flatten([i \in 1..Len(s) |-> UpperChar(s[i])])

\* White space of trim() and of \s: the model names the space, the tab, the
\* line feed and the no-break space U+00A0.
IsSpace(c) == c \in {" ", "\t", "\n", "nbsp"}

RECURSIVE TrimStart(_)
TrimStart(s) ==
    IF s # <<>> /\ IsSpace(Head(s)) THEN TrimStart(Tail(s)) ELSE s

RECURSIVE TrimEnd(_)
TrimEnd(s) ==
    IF s # <<>> /\ IsSpace(s[Len(s)]) THEN TrimEnd(SubSeq(s, 1, Len(s) - 1))
    ELSE s

\* s.trim()
Trim(s) == TrimEnd(TrimStart(s))

\* s.split(sep) for a one-character separator: the pieces between the
\* separators, the empty ones included; never an empty list.
Split(s, sep) ==
    LET at  == { i \in 1..Len(s) : s[i] = sep }
        n   == Cardinality(at)
        \* the separator before the k-th piece and the one after it
        lo(k) == IF k = 1 THEN 0 ELSE KthSmallest(at, k - 1)
        hi(k) == IF k = n + 1 THEN Len(s) + 1 ELSE KthSmallest(at, k)
    IN  [k \in 1..(n + 1) |-> SubSeq(s, lo(k) + 1, hi(k) - 1)]

\* parts.join(sep)
RECURSIVE Join(_, _)
Join(parts, sep) ==
    IF parts = <<>> THEN <<>>
    ELSE IF Len(parts) = 1 THEN parts[1]
    ELSE parts[1] \o <<sep>> \o Join(Tail(parts), sep)

\* What indexing past the end of split's list gives where a string is expected.
UndefinedString == <<"<undefined>">>

(***************************************************************************)
(* Email  (src/src/factories/email.ts)                                     *)
(***************************************************************************)
MsgEmailInvalid == "Email invalido"
MsgEmailTooLong == "Email nao pode exceder 255 caracteres"

\* .max(255, ...)
EmailMaxLength == 255

\* z.string().email(): zod 3's pattern
\*   /^(?!\.)(?!.*\.\.)([A-Z0-9_'+\-\.]*)[A-Z0-9_+-]@([A-Z0-9][A-Z0-9\-]*\.)+[A-Z]{2,}$/i
IsAlnum(c) == IsAsciiLetter(c) \/ IsDigit(c)

\* [A-Z0-9_'+\-\.] under the i flag
IsLocalChar(c) == IsAlnum(c) \/ c \in {"_", "'", "+", "-", "."}

\* [A-Z0-9_+-] under the i flag
IsLocalLastChar(c) == IsAlnum(c) \/ c \in {"_", "+", "-"}

\* A line terminator, which . does not match.
IsLineTerminator(c) == c \in {"\n", "\r"}

\* (?!.*\.\.) at the start of the string: no ".." before the first line
\* terminator.
NoDoubleDot(s) ==
    ~ \E i \in 1..(Len(s) - 1) :
          /\ s[i] = "." /\ s[i + 1] = "."
          /\ \A j \in 1..i : ~IsLineTerminator(s[j])

\* ([A-Z0-9_'+\-\.]*)[A-Z0-9_+-], the whole of loc
LocalPartMatches(loc) ==
    /\ Len(loc) >= 1
    /\ \A i \in 1..(Len(loc) - 1) : IsLocalChar(loc[i])
    /\ IsLocalLastChar(loc[Len(loc)])

\* [A-Z0-9][A-Z0-9\-]*, the whole of lab
LabelMatches(lab) ==
    /\ Len(lab) >= 1
    /\ IsAlnum(lab[1])
    /\ \A i \in 2..Len(lab) : IsAlnum(lab[i]) \/ lab[i] = "-"

\* ([A-Z0-9][A-Z0-9\-]*\.)+[A-Z]{2,}, the whole of dom: no label holds a dot,
\* so the labels are the pieces between the dots and the last piece is the
\* [A-Z]{2,}.
DomainPartMatches(dom) ==
    LET labels == Split(dom, ".")
        n      == Len(labels)
    IN  /\ n >= 2
        /\ \A i \in 1..(n - 1) : LabelMatches(labels[i])
        /\ Len(labels[n]) >= 2
        /\ \A i \in 1..Len(labels[n]) : IsAsciiLetter(labels[n][i])

EmailRegex(s) ==
    /\ s # <<>>
    /\ s[1] # "."
    /\ NoDoubleDot(s)
    /\ \E k \in 1..Len(s) :
          /\ s[k] = "@"
          /\ LocalPartMatches(SubSeq(s, 1, k - 1))
          /\ DomainPartMatches(SubSeq(s, k + 1, Len(s)))

\* The schema with the one message for both checks.
EmailSchemaOneMessage(s) ==
    LET issues == (IF EmailRegex(s) THEN <<>> ELSE <<MsgEmailInvalid>>)
                  \o (IF Len(s) <= EmailMaxLength THEN <<>>
                      ELSE <<MsgEmailInvalid>>)
    IN  [success |-> issues = <<>>, errors |-> issues]

\* Email.schema.safeParse(s): [success, errors]
EmailSchema(s) ==
    LET issues == (IF EmailRegex(s) THEN <<>> ELSE <<MsgEmailInvalid>>)
                  \o (IF Len(s) <= EmailMaxLength THEN <<>>
                      ELSE <<MsgEmailTooLong>>)
    IN  [success |-> issues = <<>>, errors |-> issues]

\* The constructor without toLowerCase().
EmailNewNoLowerCase(s) ==
    LET cleanEmail == Trim(s)
        result     == EmailSchema(cleanEmail)
    IN  IF ~result.success
        THEN [value |-> None, thrown |-> FirstMessage(result, MsgEmailInvalid)]
        ELSE [value |-> Some(cleanEmail), thrown |-> NoError]

\* new Email(email): [value, thrown]
EmailNew(s) ==
    LET cleanEmail == ToLowerCase(Trim(s))
        result     == EmailSchema(cleanEmail)
    IN  IF ~result.success
        THEN [value |-> None, thrown |-> FirstMessage(result, MsgEmailInvalid)]
        ELSE [value |-> Some(cleanEmail), thrown |-> NoError]

\* Email.isValid(email)
EmailIsValid(s) == EmailSchema(ToLowerCase(Trim(s))).success

\* The getters raw and formatted
EmailRaw(v) == v
EmailFormatted(v) == v

\* getDomain reading index 0 of the split.
EmailGetDomainFirstPiece(v) == Split(v, "@")[1]

\* getDomain(): this.value.split('@')[1]
EmailGetDomain(v) ==
    LET parts == Split(v, "@")
    IN  IF Len(parts) >= 2 THEN parts[2] ELSE UndefinedString

\* getUsername(): this.value.split('@')[0]
EmailGetUsername(v) == Split(v, "@")[1]

\* hasDomain comparing without toLowerCase().
EmailHasDomainExact(v, d) == EmailGetDomain(v) = d

\* hasDomain(domain)
EmailHasDomain(v, d) == ToLowerCase(EmailGetDomain(v)) = ToLowerCase(d)

(***************************************************************************)
(* FullName  (src/src/factories/full-name.ts)                              *)
(***************************************************************************)
MsgNameTooShort == "Nome completo deve ter pelo menos 3 caracteres"
MsgNameTooLong  == "Nome completo nao pode exceder 100 caracteres"
MsgNameInvalid  == "Nome completo invalido"

\* .min(3, ...) and .max(100, ...)
NameMinLength == 3
NameMaxLength == 100

\* s.replace(/\s+/g, ' '): every run of white space becomes one space.
CollapseWhitespace(s) ==
    LET first == { i \in 1..Len(s) :
                     ~IsSpace(s[i]) \/ i = 1 \/ ~IsSpace(s[i - 1]) }
    IN  [k \in 1..Cardinality(first) |->
            LET c == s[KthSmallest(first, k)]
            IN  IF IsSpace(c) THEN " " ELSE c]

\* s.split(/\s+/)
SplitWhitespace(s) == Split(CollapseWhitespace(s), " ")

\* [a-zA-ZÀ-ÖØ-öø-ÿ]: the ASCII letters and the Latin-1 letters
IsNameLetter(c) ==
    \/ IsAsciiLetter(c)
    \/ c \in Latin1Lower \cup Latin1Upper
    \/ c \in {"sharp_s", "y_diaeresis"}

\* [a-zA-ZÀ-ÖØ-öø-ÿ'-]
IsNameChar(c) == IsNameLetter(c) \/ c \in {"'", "-"}

\* validSingleCharWords: 'e', 'o', 'a', U+00E0, U+00E9
ValidSingleCharWords ==
    { <<"e">>, <<"o">>, <<"a">>, <<"a_grave">>, <<"e_acute">> }

\* A variant of the loop body that lets no one-character word through.
NameWordOkNoSingleChar(word) ==
    /\ Len(word) # 1
    /\ word # <<>> /\ IsNameLetter(word[1])
    /\ word # <<>> /\ \A i \in 1..Len(word) : IsNameChar(word[i])

\* The body of validate's loop for one word: TRUE when no check returns false.
NameWordOk(word) ==
    /\ ~(Len(word) = 1 /\ ToLowerCase(word) \notin ValidSingleCharWords)
    /\ word # <<>> /\ IsNameLetter(word[1])
    /\ word # <<>> /\ \A i \in 1..Len(word) : IsNameChar(word[i])

\* FullName.validate
NameValidate(name) ==
    LET words == SplitWhitespace(Trim(name))
    IN  IF Len(words) < 2 THEN FALSE
        ELSE \A i \in 1..Len(words) : NameWordOk(words[i])

\* A variant of the schema that runs the refinement before the length checks.
NameSchemaRefineFirst(s) ==
    LET issues == (IF NameValidate(s) THEN <<>> ELSE <<MsgNameInvalid>>)
                  \o (IF Len(s) >= NameMinLength THEN <<>> ELSE <<MsgNameTooShort>>)
                  \o (IF Len(s) <= NameMaxLength THEN <<>> ELSE <<MsgNameTooLong>>)
    IN  [success |-> issues = <<>>, errors |-> issues]

\* FullName.schema.safeParse(s): [success, errors]
NameSchema(s) ==
    LET issues == (IF Len(s) >= NameMinLength THEN <<>> ELSE <<MsgNameTooShort>>)
                  \o (IF Len(s) <= NameMaxLength THEN <<>> ELSE <<MsgNameTooLong>>)
                  \o (IF NameValidate(s) THEN <<>> ELSE <<MsgNameInvalid>>)
    IN  [success |-> issues = <<>>, errors |-> issues]

\* indexOf of a character: the first position holding it (from 1).
FirstIndexOf(s, c) == CHOOSE i \in 1..Len(s) : s[i] = c /\ \A j \in 1..(i - 1) : s[j] # c

\* FullName.capitalizeWord
RECURSIVE CapitalizeWord(_)
RECURSIVE CapitalizeEach(_)
CapitalizeEach(parts) ==
    IF parts = <<>> THEN <<>>
    ELSE <<CapitalizeWord(Head(parts))>> \o CapitalizeEach(Tail(parts))

\* A variant of capitalizeWord without the branches for "-" and "'".
CapitalizeWordPlain(word) ==
    IF word = <<>> THEN <<>>
    ELSE UpperChar(word[1]) \o ToLowerCase(Tail(word))

CapitalizeWord(word) ==
    IF "-" \in Range(word)
    THEN Join(CapitalizeEach(Split(word, "-")), "-")
    ELSE IF "'" \in Range(word)
    THEN LET apostropheIndex == FirstIndexOf(word, "'")
             firstPart  == SubSeq(word, 1, apostropheIndex)
             secondPart == SubSeq(word, apostropheIndex + 1, Len(word))
         IN  IF Len(secondPart) > 0 THEN firstPart \o CapitalizeWord(secondPart)
             ELSE firstPart
    ELSE IF word = <<>> THEN <<>>
    ELSE UpperChar(word[1]) \o ToLowerCase(Tail(word))

\* lowerCaseWords
LowerCaseWords ==
    { <<"d", "e">>, <<"d", "a">>, <<"d", "o">>, <<"d", "a", "s">>,
      <<"d", "o", "s">>, <<"e">>, <<"o">>, <<"a">>, <<"o", "s">>,
      <<"a", "s">>, <<"e", "m">>, <<"c", "o", "m">> }

\* A variant of the callback without the rule for the first word.
ProcessWordNoFirstRule(word, index) ==
    IF ToLowerCase(word) \in LowerCaseWords THEN ToLowerCase(word)
    ELSE CapitalizeWord(word)

\* The callback of words.map in normalizeName, index counted from 0.
ProcessWord(word, index) ==
    IF index = 0 THEN CapitalizeWord(word)
    ELSE IF ToLowerCase(word) \in LowerCaseWords THEN ToLowerCase(word)
    ELSE CapitalizeWord(word)

\* FullName.normalizeName
NormalizeName(name) ==
    LET trimmedName == CollapseWhitespace(Trim(name))
        words == Split(trimmedName, " ")
        processedWords == [i \in 1..Len(words) |-> ProcessWord(words[i], i - 1)]
    IN  Join(processedWords, " ")

\* new FullName(name): [value, thrown]
NameNew(s) ==
    LET cleanName == NormalizeName(s)
        result    == NameSchema(cleanName)
    IN  IF ~result.success
        THEN [value |-> None, thrown |-> FirstMessage(result, MsgNameInvalid)]
        ELSE [value |-> Some(cleanName), thrown |-> NoError]

\* FullName.isValid(name)
NameIsValid(s) == NameSchema(NormalizeName(s)).success

\* get raw(): this.value
NameRaw(v) == v

\* get formatted(): this.value
NameFormatted(v) == v

\* A variant of getFirstName that also cuts the first word at a hyphen.
NameGetFirstNameAtHyphen(v) == Split(Split(v, " ")[1], "-")[1]

\* getFirstName(): this.value.split(' ')[0]
NameGetFirstName(v) == Split(v, " ")[1]

\* getLastName(): parts[parts.length - 1]
NameGetLastName(v) == LET parts == Split(v, " ") IN parts[Len(parts)]

(***************************************************************************)
(* The calls, with the state that outlives them.  Each class holds its     *)
(* schema in a static field that is assigned once; the pattern of          *)
(* CPF.schema and the address pattern of Email.schema are RegExp objects   *)
(* that every call of the class uses again, and a RegExp object carries a  *)
(* lastIndex.  FullName.schema holds no pattern: validate evaluates its    *)
(* patterns and its word lists anew on every call.                         *)
(***************************************************************************)
Classes == {"CPF", "Email", "FullName"}

\* The classes whose static schema holds a RegExp object.
PatternOwners == {"CPF", "Email"}

\* lastIndex of every pattern once the classes are defined.
FreshLastIndex == [c \in PatternOwners |-> 0]

\* A pattern with the flag g, tested as it is left by the test before: the
\* search starts at lastIndex, so a pattern anchored at the start matches
\* only from 0; a match moves lastIndex to its end, a failure to 0.
PatternTestGlobal(li, s, matches) ==
    [ok        |-> li = 0 /\ matches,
     lastIndex |-> IF li = 0 /\ matches THEN Len(s) ELSE 0]

\* pattern.test(s) for the pattern of a schema; matches tells whether s
\* matches it from the start.  The patterns have neither g nor y: the test
\* does not read lastIndex and leaves it as it is.
PatternTest(li, s, matches) ==
    [ok |-> matches, lastIndex |-> li]

\* schema.safeParse(s) of class c with the patterns in state li:
\* [success, errors, lastIndex]
SafeParse(c, li, s) ==
    IF c = "CPF"
    THEN LET t == PatternTest(li[c], s, ElevenDigits(s))
             issues == (IF t.ok THEN <<>> ELSE <<MsgCpfDigits>>)
                       \o (IF Validate(s) THEN <<>> ELSE <<MsgCpfInvalid>>)
         IN  [success |-> issues = <<>>, errors |-> issues,
              lastIndex |-> [li EXCEPT ![c] = t.lastIndex]]
    ELSE IF c = "Email"
    THEN LET t == PatternTest(li[c], s, EmailRegex(s))
             issues == (IF t.ok THEN <<>> ELSE <<MsgEmailInvalid>>)
                       \o (IF Len(s) <= EmailMaxLength THEN <<>>
                           ELSE <<MsgEmailTooLong>>)
         IN  [success |-> issues = <<>>, errors |-> issues,
              lastIndex |-> [li EXCEPT ![c] = t.lastIndex]]
    ELSE [success |-> NameSchema(s).success, errors |-> NameSchema(s).errors,
          lastIndex |-> li]

\* What the constructor and isValid of class c make of their argument before
\* they parse it.
Clean(c, s) ==
    IF c = "CPF" THEN StripNonDigits(s)
    ELSE IF c = "Email" THEN ToLowerCase(Trim(s))
    ELSE NormalizeName(s)

\* The message the constructor of class c falls back on.
Fallback(c) ==
    IF c = "CPF" THEN MsgCpfInvalid
    ELSE IF c = "Email" THEN MsgEmailInvalid
    ELSE MsgNameInvalid

\* new c(s) with the patterns in state li: [value, thrown, lastIndex]
ConstructWith(c, li, s) ==
    LET result == SafeParse(c, li, Clean(c, s))
    IN  IF ~result.success
        THEN [value |-> None, thrown |-> FirstMessage(result, Fallback(c)),
              lastIndex |-> result.lastIndex]
        ELSE [value |-> Some(Clean(c, s)), thrown |-> NoError,
              lastIndex |-> result.lastIndex]

\* c.isValid(s) with the patterns in state li: [ret, lastIndex]
IsValidWith(c, li, s) ==
    LET result == SafeParse(c, li, Clean(c, s))
    IN  [ret |-> result.success, lastIndex |-> result.lastIndex]

\* The getters raw and formatted of an object of class c that stores v.
RawOf(c, v) ==
    IF c = "CPF" THEN CpfRaw(v)
    ELSE IF c = "Email" THEN EmailRaw(v)
    ELSE NameRaw(v)
FormattedOf(c, v) ==
    IF c = "CPF" THEN CpfFormatted(v)
    ELSE IF c = "Email" THEN EmailFormatted(v)
    ELSE NameFormatted(v)

(***************************************************************************)
(* The callers' inputs.                                                    *)
(***************************************************************************)
\* The first nine digits of the CPFs of the test suite.
CpfKnownPrefixes ==
    { <<"5", "2", "9", "9", "8", "2", "2", "4", "7">>,
      <<"1", "1", "1", "4", "4", "4", "7", "7", "7">>,
      <<"4", "4", "8", "7", "4", "8", "8", "0", "3">>,
      <<"0", "5", "3", "1", "2", "5", "8", "5", "3">>,
      <<"7", "6", "2", "5", "4", "3", "2", "1", "3">>,
      <<"1", "2", "3", "4", "5", "6", "7", "8", "9">> }

\* Eight equal digits and a ninth: with a = b, the start of an all-equal CPF.
CpfFamilyPrefixes ==
    { Repeat(a, 8) \o <<b>> : a \in Digits, b \in Digits }

\* What follows the ninth digit: nothing, one digit, or two check digits.
CpfTails ==
    {<<>>} \cup { <<a>> : a \in Digits }
           \cup { <<a, b>> : a \in Digits, b \in Digits }

\* Digits beyond the eleventh.
CpfExtras == { Repeat("0", k) : k \in 0..(MaxDigits - 11) }

\* The digit strings: a prefix cut to n digits, a tail after a whole prefix,
\* extra digits after a whole tail.
CpfDigitStrings(prefixes) ==
    { SubSeq(p, 1, n) : p \in prefixes, n \in 0..8 }
    \cup { p \o t : p \in prefixes, t \in CpfTails }
    \cup { p \o t \o e : p \in prefixes,
                         t \in { x \in CpfTails : Len(x) = 2 },
                         e \in CpfExtras }

\* How a caller writes the digits: what stands before them, after the third,
\* sixth and ninth digit, and after them.  "arabic_3" is U+0663, a digit that
\* \d does not match.
CpfStyles ==
    { [name |-> "plain",   lead |-> <<>>, s3 |-> <<>>, s6 |-> <<>>,
       s9 |-> <<>>, trail |-> <<>>],
      [name |-> "punct",   lead |-> <<>>, s3 |-> <<".">>, s6 |-> <<".">>,
       s9 |-> <<"-">>, trail |-> <<>>],
      [name |-> "spaces",  lead |-> <<" ">>, s3 |-> <<" ">>, s6 |-> <<" ">>,
       s9 |-> <<" ">>, trail |-> <<" ", "\n">>],
      [name |-> "letters", lead |-> <<>>, s3 |-> <<"a">>, s6 |-> <<"b">>,
       s9 |-> <<"c">>, trail |-> <<"arabic_3">>] }

RECURSIVE Interleave(_, _, _)
Interleave(st, ds, i) ==
    IF i > Len(ds) THEN <<>>
    ELSE <<ds[i]>>
         \o (IF i = Len(ds) THEN <<>>
             ELSE CASE i = 3 -> st.s3 [] i = 6 -> st.s6 [] i = 9 -> st.s9
                    [] OTHER -> <<>>)
         \o Interleave(st, ds, i + 1)

Decorate(st, ds) == st.lead \o Interleave(st, ds, 1) \o st.trail

\* Nine equal digits.
CpfUniformPrefixes == { Repeat(a, 9) : a \in Digits }

\* The known and the all-equal prefixes in every style, the family bare.
CpfInputs ==
    { Decorate(st, ds) :
        st \in CpfStyles,
        ds \in CpfDigitStrings(CpfKnownPrefixes \cup CpfUniformPrefixes) }
    \cup CpfDigitStrings(CpfFamilyPrefixes)

(***************************************************************************)
(* The state machine: a caller holds an input string, constructs an object *)
(* from it, asks isValid about it, reads the object's accessors, and feeds *)
(* strings derived from the object back in.                                *)
(***************************************************************************)
FromCaller == [how |-> "caller", from |-> <<>>]

NothingCalled ==
    /\ value = None
    /\ thrown = NoError
    /\ isValidRet = None
    /\ formatted = None
    /\ domain = None
    /\ username = None
    /\ hasDomainArg = None
    /\ hasDomainRet = None
    /\ firstName = None
    /\ lastName = None

\* No object exists yet and the static schemas are as the module load left
\* them.
NoObjectsYet ==
    /\ objects = <<>>
    /\ lastIndex = FreshLastIndex
    /\ lastCall = None

\* A fresh input replaces the old one: nothing has been called on it yet.
NewInput(s, org) ==
    /\ input' = s
    /\ origin' = org
    /\ value' = None
    /\ thrown' = NoError
    /\ isValidRet' = None
    /\ formatted' = None
    /\ domain' = None
    /\ username' = None
    /\ hasDomainArg' = None
    /\ hasDomainRet' = None
    /\ firstName' = None
    /\ lastName' = None
    /\ UNCHANGED <<cls, shared>>

Constructed == value # None
Threw       == thrown # NoError
NewCalled   == Constructed \/ Threw

InitCPF ==
    /\ cls = "CPF"
    /\ input \in CpfInputs
    /\ origin = FromCaller
    /\ NothingCalled
    /\ NoObjectsYet

\* new CPF(input)
CPFNew ==
    /\ cls = "CPF"
    /\ ~NewCalled
    /\ value' = CpfNew(input).value
    /\ thrown' = CpfNew(input).thrown
    /\ UNCHANGED <<cls, input, origin, isValidRet, formatted, domain, username,
                   hasDomainArg, hasDomainRet,
                   firstName, lastName, shared>>

\* CPF.isValid(input)
CPFIsValid ==
    /\ cls = "CPF"
    /\ isValidRet = None
    /\ isValidRet' = Some(CpfIsValid(input))
    /\ UNCHANGED <<cls, input, origin, value, thrown, formatted, domain,
                   username, hasDomainArg, hasDomainRet,
                   firstName, lastName, shared>>

\* cpf.formatted
CPFGetFormatted ==
    /\ cls = "CPF"
    /\ origin.how = "caller"
    /\ Constructed
    /\ formatted = None
    /\ formatted' = Some(CpfFormatted(Get(value)))
    /\ UNCHANGED <<cls, input, origin, value, thrown, isValidRet, domain,
                   username, hasDomainArg, hasDomainRet,
                   firstName, lastName, shared>>

\* The caller takes cpf.formatted as the next input.
CPFReparseFormatted ==
    /\ cls = "CPF"
    /\ origin.how = "caller"
    /\ formatted # None
    /\ NewInput(Get(formatted), [how |-> "formatted", from |-> Get(value)])

\* The caller takes cpf.raw with one check digit (digit 9 or 10, counted from
\* 0) replaced by another digit as the next input.
CPFFlipCheckDigit ==
    /\ cls = "CPF"
    /\ origin.how = "caller"
    /\ Constructed
    /\ \E i \in {9, 10}, d \in Digits :
          /\ d # Get(value)[i + 1]
          /\ NewInput([Get(value) EXCEPT ![i + 1] = d],
                      [how |-> "flipped", from |-> Get(value)])

NextCPF ==
    \/ CPFNew
    \/ CPFIsValid
    \/ CPFGetFormatted
    \/ CPFReparseFormatted
    \/ CPFFlipCheckDigit

SpecCPF == InitCPF /\ [][NextCPF]_vars


(***************************************************************************)
(* Email: inputs and calls.                                                *)
(***************************************************************************)
\* Longest string the short Email inputs are drawn from.
MaxEmailChars == 6

\* Longest input whose letters the caller re-cases one by one.
MaxRecaseLen == 12

EmailAlphabet == {"a", "B", ".", "@"}

EmailShortStrings ==
    UNION { [1..n -> EmailAlphabet] : n \in 0..MaxEmailChars }

\* Addresses of the test suite and of the grammar's edges.
EmailKnown ==
    { <<"t", "e", "s", "t", "e", "@", "e", "x", "e", "m", "p", "l", "o", ".", "c", "o", "m">>,
      <<" ", "T", "e", "s", "t", "e", "@", "E", "x", "e", "m", "p", "l", "o", ".", "C", "o", "m", " ">>,
      <<"T", "e", "s", "t", "e", "@", "E", "x", "e", "m", "p", "l", "o", ".", "C", "o", "m">>,
      <<" ", " ", "t", "e", "s", "t", "e", "@", "e", "x", "e", "m", "p", "l", "o", ".", "c", "o", "m", " ", " ">>,
      <<"t", "e", "s", "t", "e", ".", "n", "o", "m", "e", "+", "t", "a", "g", "-", "1", "2", "3", "@", "e", "x", "e", "m", "p", "l", "o", ".", "c", "o", "m">>,
      <<"t", "e", "s", "t", "e", "s", "e", "m", "e", "m", "a", "i", "l", ".", "c", "o", "m">>,
      <<"t", "e", "s", "t", "e", "@">>,
      <<"@", "e", "x", "e", "m", "p", "l", "o", ".", "c", "o", "m">>,
      <<"t", "e", "s", "t", "e", "@", "e", "x", "e", "m", "p", "l", "o">>,
      <<"u", "s", "u", "a", "r", "i", "o", ".", "t", "e", "s", "t", "e", "@", "d", "o", "m", "i", "n", "i", "o", ".", "c", "o", "m", ".", "b", "r">>,
      <<"x", "@", "e", "x", "e", "m", "p", "l", "o", ".", "c", "o", "m">>,
      <<"e", "x", "e", "m", "p", "l", "o", "@", "s", ".", "e", "x", "e", "m", "p", "l", "o">>,
      <<"e", "x", "e", "m", "p", "l", "o", "-", "i", "n", "d", "e", "e", "d", "@", "s", "t", "r", "a", "n", "g", "e", "-", "e", "x", "e", "m", "p", "l", "o", ".", "c", "o", "m">>,
      <<"a", "@", "b", "@", "c", ".", "d", "d">>,
      <<"kelvin", "@", "a", ".", "a", "a">>,
      <<"a", "'", "@", "b", ".", "c", "c">>,
      <<"o", "'", "n", "e", "i", "l", "@", "b", ".", "c", "c">>,
      <<"a", "@", "-", "b", ".", "c", "c">>,
      <<"a", "@", "b", "-", ".", "c", "c">>,
      <<"a", ".", ".", "b", "@", "c", ".", "d", "d">>,
      <<".", "a", "@", "b", ".", "c", "c">>,
      <<"a", ".", "@", "b", ".", "c", "c">>,
      <<"a", "@", "b", ".", "c", "1">>,
      <<"a", "@", "b", ".", "c">>,
      <<"a", "@", "1", ".", "c", "c">>,
      <<"e_acute", "@", "b", ".", "c", "c">>,
      <<" ", "\t", "a", "@", "b", ".", "c", "c", "\n">>,
      <<"a", " ", "@", "b", ".", "c", "c">>,
      <<"a", "@", "b", ".", ".", "c", "c">>,
      <<"\n", ".", ".", "a", "@", "b", ".", "c", "c">>,
      <<"a", "_", "b", "@", "c", ".", "d", "d">>,
      <<"sharp_s", "@", "b", ".", "c", "c">> }

\* Addresses around the length limit: n letters, then a tail.
EmailLong ==
    { Repeat(c, n) \o t :
        c \in {"a", "B"},
        n \in {EmailMaxLength - 6, EmailMaxLength - 5, EmailMaxLength - 4},
        t \in { <<"@", "a", ".", "a", "a">>, <<"@", "a", ".", "a", "a", " ">>,
                <<"@", "a", "a">>, <<"@", "a", ".", ".", "a", "a">> } }

EmailInputs == EmailShortStrings \cup EmailKnown \cup EmailLong

InitEmail ==
    /\ cls = "Email"
    /\ input \in EmailInputs
    /\ origin = FromCaller
    /\ NothingCalled
    /\ NoObjectsYet

\* new Email(input)
EmailNewCall ==
    /\ cls = "Email"
    /\ ~NewCalled
    /\ value' = EmailNew(input).value
    /\ thrown' = EmailNew(input).thrown
    /\ UNCHANGED <<cls, input, origin, isValidRet, formatted, domain, username,
                   hasDomainArg, hasDomainRet,
                   firstName, lastName, shared>>

\* Email.isValid(input)
EmailIsValidCall ==
    /\ cls = "Email"
    /\ isValidRet = None
    /\ isValidRet' = Some(EmailIsValid(input))
    /\ UNCHANGED <<cls, input, origin, value, thrown, formatted, domain,
                   username, hasDomainArg, hasDomainRet,
                   firstName, lastName, shared>>

\* email.formatted
EmailGetFormattedCall ==
    /\ cls = "Email"
    /\ origin.how = "caller"
    /\ Constructed
    /\ formatted = None
    /\ formatted' = Some(EmailFormatted(Get(value)))
    /\ UNCHANGED <<cls, input, origin, value, thrown, isValidRet, domain,
                   username, hasDomainArg, hasDomainRet,
                   firstName, lastName, shared>>

\* email.getDomain()
EmailGetDomainCall ==
    /\ cls = "Email"
    /\ origin.how = "caller"
    /\ Constructed
    /\ domain = None
    /\ domain' = Some(EmailGetDomain(Get(value)))
    /\ UNCHANGED <<cls, input, origin, value, thrown, isValidRet, formatted,
                   username, hasDomainArg, hasDomainRet,
                   firstName, lastName, shared>>

\* email.getUsername()
EmailGetUsernameCall ==
    /\ cls = "Email"
    /\ origin.how = "caller"
    /\ Constructed
    /\ username = None
    /\ username' = Some(EmailGetUsername(Get(value)))
    /\ UNCHANGED <<cls, input, origin, value, thrown, isValidRet, formatted,
                   domain, hasDomainArg, hasDomainRet,
                   firstName, lastName, shared>>

\* c with its case changed, as a string
SwapCaseChar(c) == IF LowerChar(c) # <<c>> THEN LowerChar(c) ELSE UpperChar(c)

\* s with the case of its i-th character changed
SwapCaseAt(s, i) ==
    SubSeq(s, 1, i - 1) \o SwapCaseChar(s[i]) \o SubSeq(s, i + 1, Len(s))

\* The domains a caller asks hasDomain about, for an object holding v.
HasDomainArgs(v) ==
    LET d == EmailGetDomain(v)
    IN  { d, ToUpperCase(d), SwapCaseAt(d, 1), SwapCaseAt(d, Len(d)), <<>>,
          <<"@">> \o d, <<"a", ".", "a", "a">>, <<"kelvin">> \o Tail(d),
          Append(d, "x") }

\* email.hasDomain(d)
EmailHasDomainCall ==
    /\ cls = "Email"
    /\ origin.how = "caller"
    /\ Constructed
    /\ hasDomainArg = None
    /\ \E d \in HasDomainArgs(Get(value)) :
          /\ hasDomainArg' = Some(d)
          /\ hasDomainRet' = Some(EmailHasDomain(Get(value), d))
    /\ UNCHANGED <<cls, input, origin, value, thrown, isValidRet, formatted,
                   domain, username,
                   firstName, lastName, shared>>

\* The caller takes email.raw as the next input.
EmailReconstructFromRaw ==
    /\ cls = "Email"
    /\ origin.how = "caller"
    /\ Constructed
    /\ NewInput(EmailRaw(Get(value)), [how |-> "raw", from |-> Get(value)])

\* The caller takes the input with the case of one letter changed as the next
\* input.
EmailRecaseInput ==
    /\ cls = "Email"
    /\ origin.how = "caller"
    /\ Constructed
    /\ Len(input) <= MaxRecaseLen
    /\ \E i \in 1..Len(input) :
          /\ SwapCaseChar(input[i]) # <<input[i]>>
          /\ NewInput(SwapCaseAt(input, i),
                      [how |-> "recased", from |-> Get(value)])

NextEmail ==
    \/ EmailNewCall
    \/ EmailIsValidCall
    \/ EmailGetFormattedCall
    \/ EmailGetDomainCall
    \/ EmailGetUsernameCall
    \/ EmailHasDomainCall
    \/ EmailReconstructFromRaw
    \/ EmailRecaseInput

SpecEmail == InitEmail /\ [][NextEmail]_vars

(***************************************************************************)
(* FullName: inputs and calls.                                             *)
(***************************************************************************)
\* Longest string the short FullName inputs are drawn from.
MaxNameChars == 5

NameAlphabet == {"a", "D", " ", "-", "'"}

NameShortStrings ==
    UNION { [1..n -> NameAlphabet] : n \in 0..MaxNameChars }

\* Names of the test suite and of the rules' edges.
NameKnown ==
    { <<"J", "o", "a_tilde", "o", " ", "S", "i", "l", "v", "a">>,
      <<"m", "a", "r", "i", "a", " ", "D", "A", " ", "s", "i", "l", "v", "a">>,
      <<"A", "n", "t", "o", "n", "i", "o", " ", "D", "E", " ", "O", "l", "i", "v", "e", "i", "r", "a", " ", "D", "O", "S", " ", "S", "a", "n", "t", "o", "s">>,
      <<"d", "e", " ", "s", "o", "u", "z", "a", " ", "p", "e", "r", "e", "i", "r", "a">>,
      <<" ", " ", "A", "n", "a", " ", " ", " ", "P", "a", "u", "l", "a", " ", " ", "S", "o", "u", "z", "a", " ", " ">>,
      <<"J", "o", "a_tilde", "o", "-", "C", "a", "r", "l", "o", "s", " ", "S", "i", "l", "v", "a">>,
      <<"M", "a", "r", "i", "a", " ", "D", "'", "A", "l", "e", "s", "s", "a", "n", "d", "r", "o">>,
      <<"J", "o">>,
      <<"J", "o", "a_tilde", "o">>,
      <<"J", "o", "a_tilde", "o", " ", "S">>,
      <<"J", "o", "a_tilde", "o", " ", "S", "i", "l", "v", "a", "1">>,
      <<"J", "o", "a_tilde", "o", " ", "@", "S", "i", "l", "v", "a">>,
      <<"J", " ", "S">>,
      <<>>,
      <<"J", "e", "a", "n", "-", "C", "l", "a", "u", "d", "e", " ", "O", "'", "D", "o", "n", "n", "e", "l", "l">>,
      <<"P", "e", "d", "r", "o", " ", "S", "i", "l", "v", "a", " ", "e", " ", "S", "o", "u", "z", "a">>,
      <<"J", "o", "s", "e_acute", "\t", "d", "a", "\n", " ", "S", "i", "l", "v", "a">>,
      <<"m", "a", "r", "i", "a", "-", "J", "O", "S", "E_acute", " ", "s", "i", "l", "v", "a">>,
      <<"m", "a", "r", "i", "a", " ", "d", "'", "a", "l", "e", "s", "s", "a", "n", "d", "r", "o">>,
      <<"o", "'", "b", "r", "i", "e", "n", " ", "S", "I", "L", "V", "A">>,
      <<"j", "e", "a", "n", "-", "d", "'", "A", "R", "C", " ",
        "s", "i", "l", "v", "a">>,
      <<"sharp_s", "a", " ", "s", "i", "l", "v", "a">>,
      <<"d", "a", " ", "S", "I", "L", "V", "A", " ", "D", "A", " ",
        "c", "o", "s", "t", "a">>,
      <<"y_diaeresis", "v", "e", "s", " ", "s", "i", "l", "v", "a">>,
      <<"s", "i", "l", "v", "a", " ", "y_diaeresis", "v", "e", "s">>,
      <<"a", "n", "a", " ", "a_grave", " ", "s", "i", "l", "v", "a">>,
      <<"A", "n", "a", " ", "E_acute">>,
      <<"a", "n", "a", "-", " ", "s", "i", "l", "v", "a">>,
      <<"-", "a", "n", "a", " ", "s", "i", "l", "v", "a">>,
      <<"a", "n", "a", " ", "s", "i", "l", "v", "a", "'">>,
      <<"'", "a", "n", "a", " ", "s", "i", "l", "v", "a">>,
      <<"E", " ", "A">>,
      <<"e", " ", "a", " ", "o">>,
      <<"kelvin", "u", "r", "t", " ", "S", "i", "l", "v", "a">>,
      <<"j", "o", "a_tilde", "o", "nbsp", "s", "i", "l", "v", "a">>,
      <<"A", "n", "a", " ", "S", "-">> }

\* Names around the length limits: n letters, a space, and a last word.
NameLong ==
    { Repeat("A", n) \o t :
        n \in {NameMaxLength - 3, NameMaxLength - 2, NameMaxLength + 1},
        t \in { <<>>, <<" ", "a", "b">>, <<" ", "a", "b", " ">>, <<" ", "1">> } }

NameInputs == NameShortStrings \cup NameKnown \cup NameLong

InitName ==
    /\ cls = "FullName"
    /\ input \in NameInputs
    /\ origin = FromCaller
    /\ NothingCalled
    /\ NoObjectsYet

\* new FullName(input)
NameNewCall ==
    /\ cls = "FullName"
    /\ ~NewCalled
    /\ value' = NameNew(input).value
    /\ thrown' = NameNew(input).thrown
    /\ UNCHANGED <<cls, input, origin, isValidRet, formatted, domain, username,
                   hasDomainArg, hasDomainRet,
                   firstName, lastName, shared>>

\* FullName.isValid(input)
NameIsValidCall ==
    /\ cls = "FullName"
    /\ isValidRet = None
    /\ isValidRet' = Some(NameIsValid(input))
    /\ UNCHANGED <<cls, input, origin, value, thrown, formatted, domain,
                   username, hasDomainArg, hasDomainRet,
                   firstName, lastName, shared>>

\* fullName.formatted
NameGetFormattedCall ==
    /\ cls = "FullName"
    /\ origin.how = "caller"
    /\ Constructed
    /\ formatted = None
    /\ formatted' = Some(NameFormatted(Get(value)))
    /\ UNCHANGED <<cls, input, origin, value, thrown, isValidRet, domain,
                   username, hasDomainArg, hasDomainRet, firstName, lastName,
                   shared>>

\* fullName.getFirstName()
NameGetFirstNameCall ==
    /\ cls = "FullName"
    /\ origin.how = "caller"
    /\ Constructed
    /\ firstName = None
    /\ firstName' = Some(NameGetFirstName(Get(value)))
    /\ UNCHANGED <<cls, input, origin, value, thrown, isValidRet, formatted,
                   domain, username, hasDomainArg, hasDomainRet, lastName,
                   shared>>

\* fullName.getLastName()
NameGetLastNameCall ==
    /\ cls = "FullName"
    /\ origin.how = "caller"
    /\ Constructed
    /\ lastName = None
    /\ lastName' = Some(NameGetLastName(Get(value)))
    /\ UNCHANGED <<cls, input, origin, value, thrown, isValidRet, formatted,
                   domain, username, hasDomainArg, hasDomainRet, firstName,
                   shared>>

\* The caller takes fullName.raw as the next input.
NameReconstructFromRaw ==
    /\ cls = "FullName"
    /\ origin.how = "caller"
    /\ Constructed
    /\ NewInput(NameRaw(Get(value)), [how |-> "raw", from |-> Get(value)])

NextName ==
    \/ NameNewCall
    \/ NameIsValidCall
    \/ NameGetFormattedCall
    \/ NameGetFirstNameCall
    \/ NameGetLastNameCall
    \/ NameReconstructFromRaw

SpecName == InitName /\ [][NextName]_vars

(***************************************************************************)
(* Many objects.  Callers construct objects of the three classes, ask      *)
(* isValid and read the objects constructed before, in any order.  Every   *)
(* call runs from its first statement to its return before the next one    *)
(* starts: the methods are synchronous.  An object is the value its        *)
(* constructor stored; born keeps what raw and formatted returned when the *)
(* object was constructed.                                                 *)
(***************************************************************************)
\* Most objects alive at once.
MaxObjects == 2

CpfPlain  == <<"5", "2", "9", "9", "8", "2", "2", "4", "7", "2", "5">>
CpfStyled ==
    <<"5", "2", "9", ".", "9", "8", "2", ".", "2", "4", "7", "-", "2", "5">>

\* The arguments of the calls: accepted and rejected ones of every class.
CallInputs(c) ==
    IF c = "CPF"
    THEN { CpfPlain, CpfStyled, Repeat("1", 11), <<"1", "2", "3">> }
    ELSE IF c = "Email"
    THEN { <<" ", "T", "e", "s", "t", "e", "@", "E", "x", "e", "m", "p", "l",
             "o", ".", "C", "o", "m", " ">>,
           <<"a", "@", "b", ".", "c", "o">>,
           <<"a", "@", "b">> }
    ELSE { <<"m", "a", "r", "i", "a", " ", "D", "A", " ", "s", "i", "l", "v",
             "a">>,
           <<"J", "o", "a_tilde", "o", "-", "C", "a", "r", "l", "o", "s", " ",
             "S", "i", "l", "v", "a">>,
           <<"J", "o", "a_tilde", "o">> }

InitObjects ==
    /\ cls = "any"
    /\ input = <<>>
    /\ origin = FromCaller
    /\ NothingCalled
    /\ NoObjectsYet

\* new c(s), by any caller
ObjectNew ==
    \E c \in Classes : \E s \in CallInputs(c) :
        \E r \in {ConstructWith(c, lastIndex, s)} :
            /\ Len(objects) < MaxObjects
            /\ lastIndex' = r.lastIndex
            /\ objects' =
                  IF r.value = None THEN objects
                  ELSE Append(objects,
                         [cls   |-> c,
                          value |-> Get(r.value),
                          born  |-> [raw       |-> RawOf(c, Get(r.value)),
                                     formatted |-> FormattedOf(c, Get(r.value))]])
            /\ lastCall' = Some([op |-> "new", cls |-> c, arg |-> s,
                                 value |-> r.value, thrown |-> r.thrown])
            /\ UNCHANGED <<cls, input, origin, value, thrown, isValidRet,
                           formatted, domain, username, hasDomainArg,
                           hasDomainRet, firstName, lastName>>

\* c.isValid(s), by any caller
ObjectIsValid ==
    \E c \in Classes : \E s \in CallInputs(c) :
        \E r \in {IsValidWith(c, lastIndex, s)} :
            /\ lastIndex' = r.lastIndex
            /\ lastCall' = Some([op |-> "isValid", cls |-> c, arg |-> s,
                                 ret |-> r.ret])
            /\ UNCHANGED <<cls, input, origin, value, thrown, isValidRet,
                           formatted, domain, username, hasDomainArg,
                           hasDomainRet, firstName, lastName, objects>>

\* object.raw and object.formatted of an object constructed before
ObjectRead ==
    \E i \in 1..Len(objects) :
        /\ lastCall' = Some([op |-> "read", index |-> i,
                             raw |-> RawOf(objects[i].cls, objects[i].value),
                             formatted |-> FormattedOf(objects[i].cls,
                                                       objects[i].value)])
        /\ UNCHANGED <<cls, input, origin, value, thrown, isValidRet,
                       formatted, domain, username, hasDomainArg,
                       hasDomainRet, firstName, lastName, objects, lastIndex>>

NextObjects ==
    \/ ObjectNew
    \/ ObjectIsValid
    \/ ObjectRead

SpecObjects == InitObjects /\ [][NextObjects]_vars

(***************************************************************************)
(* The three classes together.                                             *)
(***************************************************************************)
Init == InitCPF \/ InitEmail \/ InitName

Next == NextCPF \/ NextEmail \/ NextName

Spec == Init /\ [][Next]_vars


(***************************************************************************)
(* The properties.  What a property says of the inputs is written here     *)
(* from its own statement, apart from the operators above.                 *)
(***************************************************************************)
\* The subsequence of the digit characters of s.
RECURSIVE DigitsOf(_)
DigitsOf(s) ==
    IF s = <<>> THEN <<>>
    ELSE (IF Head(s) \in Digits THEN <<Head(s)>> ELSE <<>>) \o DigitsOf(Tail(s))

DigitValue ==
    ("0" :> 0) @@ ("1" :> 1) @@ ("2" :> 2) @@ ("3" :> 3) @@ ("4" :> 4)
    @@ ("5" :> 5) @@ ("6" :> 6) @@ ("7" :> 7) @@ ("8" :> 8) @@ ("9" :> 9)

\* The sum over i in 0..n of d[i] * (w - i), d indexed from 0.
RECURSIVE WeightedSum(_, _, _)
WeightedSum(d, n, w) ==
    IF n < 0 THEN 0
    ELSE DigitValue[d[n + 1]] * (w - n) + WeightedSum(d, n - 1, w)

\* (sum * 10) mod 11, with 10 mapped to 0.
CheckDigit(sum) == IF (sum * 10) % 11 = 10 THEN 0 ELSE (sum * 10) % 11

AllIdentical(d) == \A i \in 1..Len(d) : d[i] = d[1]

CheckDigitsMatch(d) ==
    /\ DigitValue[d[10]] = CheckDigit(WeightedSum(d, 8, 10))
    /\ DigitValue[d[11]] = CheckDigit(WeightedSum(d, 9, 11))

CpfAccepted(d) ==
    /\ Len(d) = 11
    /\ ~AllIdentical(d)
    /\ CheckDigitsMatch(d)

\* C1: for CPF, Email and FullName, isValid(x) returns a boolean, and it is
\* true if and only if the constructor called with the same x does not throw.
C1_IsValidAgreesWithConstructor ==
    /\ isValidRet # None => Get(isValidRet) \in BOOLEAN
    /\ (isValidRet # None /\ NewCalled) =>
          /\ Constructed # Threw
          /\ Get(isValidRet) <=> Constructed

\* C1's case: both calls made on an input the class accepts only once it is
\* cleaned.
C1_Witness ==
    /\ cls = "CPF"
    /\ Constructed
    /\ isValidRet = Some(TRUE)
    /\ Len(input) > 11

\* C2: CPF construction depends only on the digit subsequence d of the input:
\* it succeeds iff d has exactly 11 digits, not all identical, with d[9] and
\* d[10] the two check digits of the formula; on success raw is exactly d.
C2_CpfDecidedByDigits ==
    (cls = "CPF" /\ NewCalled) =>
        LET d == DigitsOf(input)
        IN  /\ Constructed <=> CpfAccepted(d)
            /\ Threw <=> ~CpfAccepted(d)
            /\ Constructed => Get(value) = d

\* C2's case: a CPF constructed from an input that holds more than its digits.
C2_Witness ==
    /\ cls = "CPF"
    /\ Constructed
    /\ Len(input) > Len(Get(value))
    /\ \E i \in 1..Len(input) : IsAsciiLetter(input[i])

\* C3: an input whose digits are 11 copies of one digit, with or without
\* punctuation, is rejected by the constructor and by isValid, although its
\* two check digits are those of the formula.
C3_AllIdenticalRejected ==
    (cls = "CPF" /\ Len(DigitsOf(input)) = 11 /\ AllIdentical(DigitsOf(input))) =>
        /\ ~Constructed
        /\ NewCalled => Threw
        /\ isValidRet # None => Get(isValidRet) = FALSE

\* C3's case: eleven equal digits with punctuation, check digits matching,
\* rejected by both calls.
C3_Witness ==
    /\ cls = "CPF"
    /\ Len(DigitsOf(input)) = 11
    /\ AllIdentical(DigitsOf(input))
    /\ CheckDigitsMatch(DigitsOf(input))
    /\ Len(input) > 11
    /\ Threw
    /\ isValidRet = Some(FALSE)

\* C4: a valid CPF with digit 9 or digit 10 replaced by a different digit is
\* rejected by the constructor and by isValid.
C4_FlippedCheckDigitRejected ==
    (cls = "CPF" /\ origin.how = "flipped") =>
        /\ ~Constructed
        /\ NewCalled => Threw
        /\ isValidRet # None => Get(isValidRet) = FALSE

\* C4's case: the second check digit of a valid CPF replaced, both calls made.
C4_Witness ==
    /\ cls = "CPF"
    /\ origin.how = "flipped"
    /\ input[11] # origin.from[11]
    /\ Threw
    /\ isValidRet = Some(FALSE)

\* C5: formatted is the 14-character string d0d1d2.d3d4d5.d6d7d8-d9d10 of the
\* raw value, and constructing a CPF from it succeeds with the same raw.
C5_FormattedRoundTrip ==
    cls = "CPF" =>
        /\ formatted # None =>
              LET d == Get(value)
              IN  Get(formatted) = << d[1], d[2], d[3], ".", d[4], d[5], d[6], ".",
                                      d[7], d[8], d[9], "-", d[10], d[11] >>
        /\ (origin.how = "formatted" /\ NewCalled) =>
              /\ Constructed
              /\ Get(value) = origin.from

\* C5's case: a CPF constructed from the formatted string of another.
C5_Witness ==
    /\ cls = "CPF"
    /\ origin.how = "formatted"
    /\ Len(input) = 14
    /\ Constructed

\* C6: a failed CPF construction carries the message of the first violated
\* check: the digit-count message exactly when the stripped input has not
\* exactly 11 digits (0 digits included), the invalid-CPF message exactly when
\* it has 11 digits that are all identical or whose check digits do not
\* match; no other message is produced.
C6_CpfMessages ==
    (cls = "CPF" /\ Threw) =>
        LET d == DigitsOf(input)
        IN  /\ thrown \in {MsgCpfDigits, MsgCpfInvalid}
            /\ thrown = MsgCpfDigits <=> Len(d) # 11
            /\ thrown = MsgCpfInvalid <=>
                  (Len(d) = 11 /\ (AllIdentical(d) \/ ~CheckDigitsMatch(d)))

\* C6's case: an input without any digit fails with the digit-count message.
C6_Witness ==
    /\ cls = "CPF"
    /\ input # <<>>
    /\ DigitsOf(input) = <<>>
    /\ thrown = MsgCpfDigits


\* The position of the first "@" of v, and the parts of v around it.
FirstAt(v) == FirstIndexOf(v, "@")
BeforeFirstAt(v) == SubSeq(v, 1, FirstAt(v) - 1)
AfterFirstAt(v) == SubSeq(v, FirstAt(v) + 1, Len(v))

ExampleAddress ==
    <<" ", "T", "e", "s", "t", "e", "@", "E", "x", "e", "m", "p", "l", "o", ".",
      "C", "o", "m", " ">>
ExampleRaw ==
    <<"t", "e", "s", "t", "e", "@", "e", "x", "e", "m", "p", "l", "o", ".",
      "c", "o", "m">>

\* C7: for an accepted input x, raw and formatted equal lowercase(trim(x));
\* constructing from that raw succeeds with the same raw, and an input that is
\* already trimmed and lower case is stored as it is.
C7_EmailNormalization ==
    cls = "Email" =>
        /\ Constructed => Get(value) = ToLowerCase(Trim(input))
        /\ formatted # None => Get(formatted) = EmailRaw(Get(value))
        /\ (Constructed /\ input = ToLowerCase(Trim(input))) => Get(value) = input
        /\ (origin.how = "raw" /\ NewCalled) =>
              /\ Constructed
              /\ Get(value) = origin.from
        /\ (input = ExampleAddress /\ NewCalled) => value = Some(ExampleRaw)

\* C7's case: an Email constructed from the raw of one whose input was neither
\* trimmed nor lower case.
C7_Witness ==
    /\ cls = "Email"
    /\ origin.how = "raw"
    /\ Constructed
    /\ \E i \in 1..Len(input) : IsAsciiLetter(input[i])

\* C8: getUsername() and getDomain() part raw at its first "@": the username
\* is what stands before it, the domain all that stands after it, both are
\* non-empty and username + "@" + domain is raw.
C8_EmailPartition ==
    (cls = "Email" /\ Constructed) =>
        LET v == Get(value)
        IN  /\ "@" \in Range(v)
            /\ username # None =>
                  /\ Get(username) = BeforeFirstAt(v)
                  /\ Get(username) # <<>>
            /\ domain # None =>
                  /\ Get(domain) = AfterFirstAt(v)
                  /\ Get(domain) # <<>>
            /\ (username # None /\ domain # None) =>
                  Get(username) \o <<"@">> \o Get(domain) = v

\* C8's case: both accessors read on a constructed Email.
C8_Witness ==
    /\ cls = "Email"
    /\ username # None
    /\ domain # None
    /\ Len(Get(username)) > 1

C10_OneMessage ==
    (cls = "Email" /\ Threw) => thrown = MsgEmailInvalid

\* C10, amended: a failed Email construction reports "Email invalido" exactly
\* when the normalized input does not match the address grammar (whatever its
\* length), and "Email nao pode exceder 255 caracteres" exactly when it matches
\* the grammar and is longer than 255 characters; no other message is
\* produced.
C10_EmailMessages ==
    (cls = "Email" /\ NewCalled) =>
        LET n == ToLowerCase(Trim(input))
        IN  /\ Threw <=> (~EmailRegex(n) \/ Len(n) > EmailMaxLength)
            /\ thrown = MsgEmailInvalid <=> ~EmailRegex(n)
            /\ thrown = MsgEmailTooLong <=>
                  (EmailRegex(n) /\ Len(n) > EmailMaxLength)

\* C10's case: an address of the grammar, longer than 255 characters once
\* normalized, fails with the length message.
C10_Witness ==
    /\ cls = "Email"
    /\ EmailRegex(ToLowerCase(Trim(input)))
    /\ Len(ToLowerCase(Trim(input))) > EmailMaxLength
    /\ thrown = MsgEmailTooLong

(***************************************************************************)
(* FullName.                                                               *)
(***************************************************************************)
\* C11: FullName normalization is idempotent: whenever a FullName was
\* constructed, constructing another one from its raw value succeeds and
\* stores exactly that raw value again.  The name "\u00DFa silva" refutes it:
\* toUpperCase turns the leading sharp s into the two letters SS, the stored
\* value is "SSa Silva", and normalizing that value gives "Ssa Silva".
C11_Idempotent ==
    (cls = "FullName" /\ origin.how = "raw" /\ NewCalled) =>
        /\ Constructed
        /\ NameRaw(Get(value)) = origin.from

\* The connectors, as a reader of the stored value knows them.
Connectors ==
    { <<"d", "e">>, <<"d", "a">>, <<"d", "o">>, <<"d", "a", "s">>,
      <<"d", "o", "s">>, <<"e">>, <<"o">>, <<"a">>, <<"o", "s">>,
      <<"a", "s">>, <<"e", "m">>, <<"c", "o", "m">> }

\* The words of the stored value and the words of the input they come from.
StoredWords == Split(Get(value), " ")
TypedWords  == SplitWhitespace(Trim(input))

\* A word whose first character is an upper-case letter and whose other
\* characters are all in lower case.
FirstUpperRestLower(w) ==
    /\ w # <<>>
    /\ IsNameLetter(w[1])
    /\ UpperChar(w[1]) = <<w[1]>>
    /\ LowerChar(w[1]) # w[1]
    /\ ToLowerCase(Tail(w)) = Tail(w)

\* C12, as stated: in the stored value every word but the first that equals a
\* connector, case ignored, is all lower case; the first word and every other
\* word have an upper-case first letter and the rest in lower case.
C12_FirstUpperRestLower ==
    (cls = "FullName" /\ Constructed) =>
        \A i \in 1..Len(StoredWords) :
            IF i > 1 /\ ToLowerCase(StoredWords[i]) \in Connectors
            THEN StoredWords[i] = ToLowerCase(StoredWords[i])
            ELSE FirstUpperRestLower(StoredWords[i])

\* C12, amended: the stored value has one word for each word of the input;
\* a word but the first that equals a connector, case ignored, is stored all
\* in lower case; every other word without hyphen and apostrophe, the first
\* word included even when it is a connector, is stored as the upper case of
\* its first character followed by the lower case of its other characters.
C12_Capitalization ==
    (cls = "FullName" /\ Constructed) =>
      \A typedWords \in {TypedWords}, storedWords \in {StoredWords} :
        /\ Len(storedWords) = Len(typedWords)
        /\ \A i \in 1..Len(storedWords) :
              LET typed  == typedWords[i]
                  stored == storedWords[i]
              IN  /\ (i > 1 /\ ToLowerCase(stored) \in Connectors) =>
                        /\ stored = ToLowerCase(typed)
                        /\ stored = ToLowerCase(stored)
                  /\ (i > 1 /\ ToLowerCase(typed) \in Connectors) =>
                        stored = ToLowerCase(typed)
                  /\ ( /\ ~(i > 1 /\ ToLowerCase(typed) \in Connectors)
                       /\ "-" \notin Range(typed)
                       /\ "'" \notin Range(typed) ) =>
                        stored = UpperChar(typed[1]) \o ToLowerCase(Tail(typed))

\* C12's case: a name that starts with a connector and has another one, typed
\* in capitals, further on.
C12_Witness ==
    /\ cls = "FullName"
    /\ Constructed
    /\ ToLowerCase(StoredWords[1]) \in Connectors
    /\ StoredWords[1] \notin Connectors
    /\ \E i \in 2..Len(StoredWords) :
          /\ StoredWords[i] \in Connectors
          /\ TypedWords[i] # StoredWords[i]

\* A segment as C13 describes its capitalization: the text up to and
\* including the first apostrophe as typed, what follows capitalized; without
\* apostrophe, the first character in upper case and the others in lower case.
BeforeFirstApostrophe(seg) == SubSeq(seg, 1, FirstIndexOf(seg, "'") - 1)
AfterFirstApostrophe(seg)  == SubSeq(seg, FirstIndexOf(seg, "'") + 1, Len(seg))

RECURSIVE CapitalizedSegment(_)
CapitalizedSegment(seg) ==
    IF "'" \in Range(seg)
    THEN BeforeFirstApostrophe(seg) \o <<"'">>
            \o CapitalizedSegment(AfterFirstApostrophe(seg))
    ELSE IF seg = <<>> THEN <<>>
    ELSE UpperChar(seg[1]) \o ToLowerCase(Tail(seg))

\* The names C13 gives as already written the way they are stored.
HyphenExample ==
    <<"J", "o", "a_tilde", "o", "-", "C", "a", "r", "l", "o", "s", " ",
      "S", "i", "l", "v", "a">>
ApostropheExample ==
    <<"M", "a", "r", "i", "a", " ", "D", "'", "A", "l", "e", "s", "s", "a",
      "n", "d", "r", "o">>

\* C13: a word with hyphens or apostrophes is stored with as many
\* hyphen-separated segments as were typed, each capitalized on its own: a
\* segment with an apostrophe keeps the text up to and including its first
\* apostrophe as typed and has what follows capitalized.  So
\* "Joao-Carlos Silva" and "Maria D'Alessandro" are stored as typed.
C13_HyphenApostrophe ==
    (cls = "FullName" /\ Constructed) =>
        /\ \A typedWords \in {TypedWords}, storedWords \in {StoredWords} :
            \A i \in 1..Len(typedWords) :
              ("-" \in Range(typedWords[i]) \/ "'" \in Range(typedWords[i])) =>
                  LET typed  == Split(typedWords[i], "-")
                      stored == Split(storedWords[i], "-")
                  IN  /\ Len(stored) = Len(typed)
                      /\ \A j \in 1..Len(typed) :
                            stored[j] = CapitalizedSegment(typed[j])
        /\ input \in {HyphenExample, ApostropheExample} => Get(value) = input

\* C13's case: a word typed with a hyphen and an apostrophe whose letters
\* change case when it is stored.
C13_Witness ==
    /\ cls = "FullName"
    /\ Constructed
    /\ \E i \in 1..Len(TypedWords) :
          /\ "-" \in Range(TypedWords[i])
          /\ "'" \in Range(TypedWords[i])
          /\ StoredWords[i] # TypedWords[i]

\* The single letters C14 lets stand as a component, in lower case.
SingleLetterComponents ==
    { <<"e">>, <<"o">>, <<"a">>, <<"a_grave">>, <<"e_acute">> }

\* A component as C14 wants it: it starts with a letter, holds only letters,
\* hyphens and apostrophes, and has two characters or more unless it is one
\* of the single letters.
ComponentOk(c) ==
    /\ c # <<>>
    /\ IsNameLetter(c[1])
    /\ \A k \in 1..Len(c) : IsNameLetter(c[k]) \/ c[k] \in {"-", "'"}
    /\ Len(c) >= 2 \/ ToLowerCase(c) \in SingleLetterComponents

\* The normalized value has 3 to 100 characters and two or more components
\* separated by spaces, every one of them as C14 wants it.
NormalizedOk(n) ==
    /\ Len(n) >= 3
    /\ Len(n) <= 100
    /\ \A components \in {Split(n, " ")} :
          /\ Len(components) >= 2
          /\ \A i \in 1..Len(components) : ComponentOk(components[i])

\* C14: new FullName(x) succeeds exactly when the normalized value n of x
\* has 3 to 100 characters and at least two space-separated components, each
\* starting with a letter, made of letters, hyphens and apostrophes only, and
\* two characters long or more unless it is one of e, o, a, a-grave, e-acute
\* in either case; an input of a single word fails; the stored raw is n.
C14_Acceptance ==
    (cls = "FullName" /\ NewCalled) =>
        \A n \in {NormalizeName(input)} :
            /\ Constructed <=> NormalizedOk(n)
            /\ Constructed => NameRaw(Get(value)) = n
            /\ Len(SplitWhitespace(Trim(input))) < 2 => Threw

\* C14's case: a name is accepted with a component of a single letter typed
\* in upper case.
C14_Witness ==
    /\ cls = "FullName"
    /\ Constructed
    /\ \E i \in 1..Len(TypedWords) :
          /\ Len(TypedWords[i]) = 1
          /\ ToLowerCase(TypedWords[i]) # TypedWords[i]

\* The normalized value breaks one of the rules C14 sets for the components.
ComponentRulesViolated(n) ==
    \E components \in {Split(n, " ")} :
        \/ Len(components) < 2
        \/ \E i \in 1..Len(components) : ~ComponentOk(components[i])

\* C15: a failed FullName construction reports the length message whenever
\* the normalized value n breaks a length bound, also when n has too few
\* components or characters that are not allowed: "Nome completo deve ter
\* pelo menos 3 caracteres" when n has fewer than 3 characters, "Nome completo
\* nao pode exceder 100 caracteres" when it has more than 100; it reports
\* "Nome completo invalido" exactly when n has 3 to 100 characters and breaks
\* the rules for the components.
C15_NameMessages ==
    (cls = "FullName" /\ Threw) =>
        \A n \in {NormalizeName(input)} :
            /\ Len(n) < 3 => thrown = MsgNameTooShort
            /\ Len(n) > 100 => thrown = MsgNameTooLong
            /\ thrown = MsgNameInvalid <=>
                  (Len(n) >= 3 /\ Len(n) <= 100 /\ ComponentRulesViolated(n))
            /\ thrown \in {MsgNameTooShort, MsgNameTooLong, MsgNameInvalid}

\* C15's case: a name that is too long and has a component that is not
\* allowed fails with the length message.
C15_Witness ==
    /\ cls = "FullName"
    /\ thrown = MsgNameTooLong
    /\ Len(Split(NormalizeName(input), " ")) >= 2
    /\ ComponentRulesViolated(NormalizeName(input))

\* The positions of the spaces of a string.
SpacesOf(s) == { i \in 1..Len(s) : s[i] = " " }

\* The text before the first space and the text after the last one.
FirstComponent(s) ==
    IF SpacesOf(s) = {} THEN s
    ELSE SubSeq(s, 1, (CHOOSE i \in SpacesOf(s) :
                          \A j \in SpacesOf(s) : i <= j) - 1)
LastComponent(s) ==
    IF SpacesOf(s) = {} THEN s
    ELSE SubSeq(s, (CHOOSE i \in SpacesOf(s) :
                       \A j \in SpacesOf(s) : i >= j) + 1, Len(s))

\* C16: of a constructed FullName, formatted equals raw; raw has no space
\* at its start or end and no two spaces in a row; getFirstName() is the
\* first and getLastName() the last space-separated component of raw, hyphens
\* included, and neither is empty.
C16_Accessors ==
    (cls = "FullName" /\ Constructed) =>
        LET raw == NameRaw(Get(value))
        IN  /\ raw # <<>>
            /\ ~IsSpace(raw[1])
            /\ ~IsSpace(raw[Len(raw)])
            /\ \A i \in 1..(Len(raw) - 1) :
                  ~(IsSpace(raw[i]) /\ IsSpace(raw[i + 1]))
            /\ formatted # None => Get(formatted) = raw
            /\ firstName # None =>
                  /\ Get(firstName) = FirstComponent(raw)
                  /\ Get(firstName) # <<>>
            /\ lastName # None =>
                  /\ Get(lastName) = LastComponent(raw)
                  /\ Get(lastName) # <<>>

\* C16's case: the first name of a constructed FullName is a hyphenated
\* word, and formatted and the last name have been read too.
C16_Witness ==
    /\ cls = "FullName"
    /\ formatted # None
    /\ lastName # None
    /\ firstName # None
    /\ "-" \in Range(Get(firstName))
    /\ Get(firstName) # Get(lastName)

(***************************************************************************)
(* The three classes, many objects.                                        *)
(***************************************************************************)
\* What a construction and an isValid call give when nothing was called
\* before them.
FirstCallNew(c, s) ==
    IF c = "CPF" THEN CpfNew(s)
    ELSE IF c = "Email" THEN EmailNew(s)
    ELSE NameNew(s)
FirstCallIsValid(c, s) ==
    IF c = "CPF" THEN CpfIsValid(s)
    ELSE IF c = "Email" THEN EmailIsValid(s)
    ELSE NameIsValid(s)

\* C17: the objects are immutable and the calls independent.  Whatever
\* constructions and isValid calls were made, in whatever order, raw and
\* formatted of every object constructed before still return what they
\* returned when it was constructed, and the latest construction or isValid
\* call gave what the same call gives when it is the first call ever made:
\* its outcome depends on its argument only.
C17_ImmutableIndependent ==
    /\ \A i \in 1..Len(objects) :
          /\ RawOf(objects[i].cls, objects[i].value) = objects[i].born.raw
          /\ FormattedOf(objects[i].cls, objects[i].value)
                = objects[i].born.formatted
    /\ lastCall # None =>
          LET call == Get(lastCall)
          IN  /\ call.op = "new" =>
                    /\ call.value = FirstCallNew(call.cls, call.arg).value
                    /\ call.thrown = FirstCallNew(call.cls, call.arg).thrown
              /\ call.op = "isValid" =>
                    call.ret = FirstCallIsValid(call.cls, call.arg)
              /\ call.op = "read" =>
                    /\ call.raw = objects[call.index].born.raw
                    /\ call.formatted = objects[call.index].born.formatted

\* C17's case: an object exists, and a construction of the same class that
\* succeeded before has just succeeded again with an equal object.
C17_Witness ==
    /\ Len(objects) >= 2
    /\ lastCall # None
    /\ Get(lastCall).op = "new"
    /\ Get(lastCall).value # None
    /\ \E i \in 1..(Len(objects) - 1) :
          /\ objects[i].cls = Get(lastCall).cls
          /\ objects[i].value = Get(Get(lastCall).value)

=============================================================================
